---- MODULE Spec2Model ----
(***************************************************************************)
(* Model of PythonCloudFunction.py: a storage-triggered function that      *)
(* reads the header of an uploaded CSV object, creates a BigQuery table    *)
(* with one STRING column per header token and loads the object into it.   *)
(*                                                                         *)
(* A Python str is a sequence of characters; a character is a one-element  *)
(* token, written as itself for ASCII and as "U+XXXX" otherwise.           *)
(***************************************************************************)
EXTENDS Integers, Sequences, FiniteSets, TLC

VARIABLES
    pc,          \* per invocation: position in process_csv_file
    obj,         \* per invocation: event['name']
    tableId,     \* per invocation: table_id
    sourceUri,   \* per invocation: source_uri
    tempExists,  \* per invocation: the NamedTemporaryFile exists on disk
    tempData,    \* per invocation: what the temporary file holds
    encoding,    \* per invocation: result['encoding']
    header,      \* per invocation: header = next(reader)
    createReq,   \* per invocation: the schema handed to client.create_table
    log,         \* per invocation: the stages run so far, with their outcome
    before,      \* per invocation: the invocations that had ended when it began
    startTable,  \* per invocation: the target table as it was when it began
    tables,      \* the warehouse: table id -> [exists, schema, rows]
    loads,       \* the warehouse: table id -> the invocations whose load job completed, in order
    locale,      \* the platform's preferred encoding (open(..., encoding=None))
    fn,          \* pure-function harness: the function under call
    arg,         \* pure-function harness: its argument
    ret,         \* pure-function harness: its result
    called       \* pure-function harness: the call has returned

vars == <<pc, obj, tableId, sourceUri, tempExists, tempData, encoding, header,
          createReq, log, before, startTable, tables, loads, locale,
          fn, arg, ret, called>>

pipeVars == <<pc, obj, tableId, sourceUri, tempExists, tempData, encoding, header,
              createReq, log, before, startTable, tables, loads, locale>>

fnVars == <<fn, arg, ret, called>>

----------------------------------------------------------------------------
(* Bounds of the model *)

NumInvocations == 2
MaxTokenLen == 2
MaxOverrun == 2
MaxNameLen == 5

(* Program constant: sanitized_name[:128] *)
FieldNameLimit == 128

----------------------------------------------------------------------------
(* Characters *)

AsciiUpper ==
    {"A","B","C","D","E","F","G","H","I","J","K","L","M",
     "N","O","P","Q","R","S","T","U","V","W","X","Y","Z"}

AsciiLower ==
    {"a","b","c","d","e","f","g","h","i","j","k","l","m",
     "n","o","p","q","r","s","t","u","v","w","x","y","z"}

AsciiDigit == {"0","1","2","3","4","5","6","7","8","9"}

\* [A-Za-z0-9_]
AsciiWordChars == AsciiUpper \cup AsciiLower \cup AsciiDigit \cup {"_"}

\* Code points outside ASCII for which str.isalnum() is true:
\* e-acute, sharp s, A-tilde (letters), Arabic-Indic digit three.
NonAsciiAlnum == {"U+00E9", "U+00DF", "U+00C3", "U+0663"}

\* Python 3 re on a str pattern: \w is Unicode-aware (no re.ASCII flag), so
\* \W matches exactly the characters that are neither alphanumeric in
\* Unicode nor the underscore.
IsWordChar(c) == c \in AsciiWordChars \cup NonAsciiAlnum

Min(a, b) == IF a < b THEN a ELSE b

----------------------------------------------------------------------------
(* sanitize_field_name *)

\* re.sub(r'\W', '_', name)
SubNonWord(name) ==
    [k \in 1..Len(name) |-> IF IsWordChar(name[k]) THEN name[k] ELSE "_"]

sanitize_field_name(name) ==
    SubSeq(SubNonWord(name), 1, Min(Len(name), FieldNameLimit))

----------------------------------------------------------------------------
(* table_id = file_name.replace(".csv", "") *)

DotCsv == <<".", "c", "s", "v">>

\* str.replace(old, ""): every non-overlapping occurrence, scanning from the left
RECURSIVE StrRemoveAll(_, _)
StrRemoveAll(s, old) ==
    IF Len(s) < Len(old) THEN s
    ELSE IF SubSeq(s, 1, Len(old)) = old
         THEN StrRemoveAll(SubSeq(s, Len(old) + 1, Len(s)), old)
         ELSE <<s[1]>> \o StrRemoveAll(Tail(s), old)

DeriveTableId(file_name) == StrRemoveAll(file_name, DotCsv)

----------------------------------------------------------------------------
(* The collaborators' data: the objects of the bucket *)

Encodings == {"ascii", "utf-8", "ISO-8859-1", "SHIFT_JIS"}

\* chardet's result['encoding'] is a label or None
NoGuess == "None"

\* What the platform's preferred encoding can be in a deployment
LocaleEncodings == {"utf-8", "ISO-8859-1"}

\* The outcome of reading a file's text under an encoding
Decoded(records) == [ok |-> TRUE, records |-> records]
DecodeFails == [ok |-> FALSE, records |-> << >>]

\* Text that reads the same whatever the encoding (7-bit content)
SameText(records) == [e \in Encodings |-> Decoded(records)]

HeaderNameMailZip ==
    << <<"N","a","m","e">>, <<"E","-","M","a","i","l">>,
       <<"Z","i","p"," ","C","o","d","e">> >>

\* Each object: the detector's guess for its bytes, and the records its first
\* read yields under each encoding (or a decoding failure).
ObjA ==
    [present |-> TRUE, guess |-> "ascii",
     text  |-> SameText(<< HeaderNameMailZip,
                           << <<"1">>, <<"2">>, <<"3">> >>,
                           << <<"4">>, <<"5">>, <<"6">> >> >>)]

\* header ["A","B"], data row ["1"]: the row shape disagrees with the header
ObjShort ==
    [present |-> TRUE, guess |-> "ascii",
     text  |-> SameText(<< << <<"A">>, <<"B">> >>, << <<"1">> >> >>)]

\* zero bytes: the detector has no data and guesses nothing
ObjEmpty == [present |-> TRUE, guess |-> NoGuess, text |-> SameText(<< >>)]

\* 7-bit text holding an ESC byte: the detector leaves its guess at None
ObjEsc ==
    [present |-> TRUE, guess |-> NoGuess,
     text  |-> SameText(<< << <<"i","U+001B","d">>, <<"v">> >>,
                           << <<"7">>, <<"8">> >> >>)]

\* UTF-8 text guessed as ISO-8859-1: e-acute reads as A-tilde, copyright sign
ObjUtf ==
    [present |-> TRUE, guess |-> "ISO-8859-1",
     text  |-> [e \in Encodings |->
                  CASE e = "utf-8" ->
                         Decoded(<< << <<"c","a","f","U+00E9">> >>, << <<"9">> >> >>)
                    [] e = "ISO-8859-1" ->
                         Decoded(<< << <<"c","a","f","U+00C3","U+00A9">> >>,
                                    << <<"9">> >> >>)
                    [] OTHER -> DecodeFails]]

\* 8-bit text guessed as SHIFT_JIS, which cannot decode it
ObjSjis ==
    [present |-> TRUE, guess |-> "SHIFT_JIS",
     text  |-> [e \in Encodings |->
                  IF e = "ISO-8859-1"
                  THEN Decoded(<< << <<"U+00DF">>, <<"k">> >>, << <<"1">>, <<"2">> >> >>)
                  ELSE DecodeFails]]

\* two header tokens that sanitize to the same field name
ObjDup ==
    [present |-> TRUE, guess |-> "ascii",
     text  |-> SameText(<< << <<"a","-","b">>, <<"a"," ","b">> >>,
                           << <<"1">>, <<"2">> >> >>)]

\* no such object in the bucket
NoBlob == [present |-> FALSE, guess |-> NoGuess, text |-> SameText(<< >>)]

NameA == <<"a", ".", "c", "s", "v">>
NameShort == <<"a">>
NameEmpty == <<"e", ".", "c", "s", "v">>
NameEsc == <<"n", ".", "c", "s", "v">>
NameUtf == <<"u", ".", "c", "s", "v">>
NameSjis == <<"j", ".", "c", "s", "v">>
NameDup == <<"d", ".", "c", "s", "v">>
NameGone == <<"m", ".", "c", "s", "v">>

ObjectNames ==
    {NameA, NameShort, NameEmpty, NameEsc, NameUtf, NameSjis, NameDup, NameGone}

\* blob = bucket.blob(file_name): the object the event names, if it is there
Blob(name) ==
    CASE name = NameA -> ObjA
      [] name = NameShort -> ObjShort
      [] name = NameEmpty -> ObjEmpty
      [] name = NameEsc -> ObjEsc
      [] name = NameUtf -> ObjUtf
      [] name = NameSjis -> ObjSjis
      [] name = NameDup -> ObjDup
      [] OTHER -> NoBlob

bucket_name == "csv-processing-bucket"
dataset_id == "csv_imports"

\* f"gs://{bucket_name}/{file_name}"
SourceUri(file_name) == <<"gs://", bucket_name, "/", file_name>>

\* the object a gs:// URI names
UriObject(uri) == Blob(uri[4])

TableIds == {DeriveTableId(n) : n \in ObjectNames}

Invocations == 1..NumInvocations

Ended == {"done", "failed"}

AbsentTable == [exists |-> FALSE, schema |-> << >>, rows |-> << >>]
NoRequest == [issued |-> FALSE, dataset |-> dataset_id, schema |-> << >>]

----------------------------------------------------------------------------
(* The pipeline's decisions *)

\* A raised exception is caught nowhere in process_csv_file: the invocation
\* ends there; otherwise control falls to the next statement.
AfterProvisionSwallow(outcome) == "load"
AfterProvision(outcome) == IF outcome = "ok" THEN "load" ELSE "failed"

AfterStage(next, outcome) == IF outcome = "ok" THEN next ELSE "failed"

\* Leaving the `with tempfile.NamedTemporaryFile()` block, by its end or by an
\* exception: __exit__ closes the file, which deletes it.
WithExitLeakOnError(i, outcome) ==
    IF outcome = "ok" THEN [tempExists EXCEPT ![i] = FALSE] ELSE tempExists
WithExit(i, outcome) == [tempExists EXCEPT ![i] = FALSE]

\* open(..., encoding=encoding): None selects the platform's preferred encoding
EffectiveEncoding(enc) == IF enc = NoGuess THEN locale ELSE enc

\* header = next(csv.reader(csv_file))
ExtractOutcome(text) ==
    IF ~text.ok THEN "UnicodeDecodeError"
    ELSE IF text.records = << >> THEN "StopIteration"
    ELSE "ok"

\* [bigquery.SchemaField(sanitize_field_name(name), "STRING") for name in header]
SchemaRaw(hdr) == [k \in 1..Len(hdr) |-> <<hdr[k], "STRING">>]
Schema(hdr) == [k \in 1..Len(hdr) |-> <<sanitize_field_name(hdr[k]), "STRING">>]

HasDuplicateNames(schema) ==
    \E k, l \in 1..Len(schema) : k < l /\ schema[k][1] = schema[l][1]

\* client.create_table(table), without exists_ok: an existing table is a
\* Conflict, a schema naming a column twice is a BadRequest (which of the two
\* the warehouse reports when both apply is its own choice).
CreateTableExistsOk(tbl, schema) ==
    IF HasDuplicateNames(schema) THEN {"BadRequest"} ELSE {"ok"}
CreateTableOutcomes(tbl, schema) ==
    LET errs == (IF tbl.exists THEN {"Conflict"} ELSE {})
                \cup (IF HasDuplicateNames(schema) THEN {"BadRequest"} ELSE {})
    IN IF errs = {} THEN {"ok"} ELSE errs

TableAfterCreate(tbl, schema, outcome) ==
    IF outcome = "ok" /\ ~tbl.exists
    THEN [exists |-> TRUE, schema |-> schema, rows |-> << >>]
    ELSE tbl

\* The load job: CSV, skip_leading_rows=1, WRITE_TRUNCATE.  The warehouse
\* reads the object itself, as UTF-8; a row whose shape disagrees with the
\* table's schema fails the job, and a job can fail for reasons of its own.
DataRows(blob) == Tail(blob.text["utf-8"].records)

LoadCanSucceed(tbl, blob) ==
    /\ tbl.exists
    /\ blob.present
    /\ blob.text["utf-8"].ok
    /\ blob.text["utf-8"].records # << >>
    /\ \A r \in 1..Len(DataRows(blob)) : Len(DataRows(blob)[r]) = Len(tbl.schema)

LoadOutcomes(tbl, blob) ==
    IF LoadCanSucceed(tbl, blob) THEN {"ok", "LoadError"} ELSE {"LoadError"}

\* WRITE_TRUNCATE: the rows loaded replace the table's; a failed job changes
\* nothing, and process_csv_file has no handler that would undo the creation.
TableAfterLoadRollback(tbl, blob, outcome) ==
    IF outcome = "ok" THEN [tbl EXCEPT !.rows = DataRows(blob)] ELSE AbsentTable
TableAfterLoad(tbl, blob, outcome) ==
    IF outcome = "ok" THEN [tbl EXCEPT !.rows = DataRows(blob)] ELSE tbl

----------------------------------------------------------------------------
(* Inputs of the pure-function harness *)

SampleChars == {"a", "Z", "7", "_", "-", " ", "U+00E9", "U+0663", "U+20AC"}

Strings(chars, n) == UNION {[1..k -> chars] : k \in 0..n}

\* pat repeated up to length n
Cycle(pat, n) == [k \in 1..n |-> pat[((k - 1) % Len(pat)) + 1]]

ShortTokens == Strings(SampleChars, MaxTokenLen)

\* tokens around the 128-character limit
LongTokens ==
    {Cycle(pat, n) : pat \in ShortTokens \ {<< >>},
                     n \in (FieldNameLimit - 1)..(FieldNameLimit + MaxOverrun)}

HeaderTokens == ShortTokens \cup LongTokens

NameChars == {".", "c", "s", "v", "a"}

FileNames ==
    Strings(NameChars, MaxNameLen)
    \cup {<<"o","r","d","e","r","s","-","2","0","2","4",".","c","s","v">>,
          <<"r","e","p","o","r","t">>}

----------------------------------------------------------------------------
(* State *)

InitPipe ==
    /\ pc = [i \in Invocations |-> "idle"]
    /\ obj = [i \in Invocations |-> << >>]
    /\ tableId = [i \in Invocations |-> << >>]
    /\ sourceUri = [i \in Invocations |-> << >>]
    /\ tempExists = [i \in Invocations |-> FALSE]
    /\ tempData = [i \in Invocations |-> NoBlob]
    /\ encoding = [i \in Invocations |-> NoGuess]
    /\ header = [i \in Invocations |-> << >>]
    /\ createReq = [i \in Invocations |-> NoRequest]
    /\ log = [i \in Invocations |-> << >>]
    /\ before = [i \in Invocations |-> {}]
    /\ startTable = [i \in Invocations |-> AbsentTable]
    /\ tables = [t \in TableIds |-> AbsentTable]
    /\ loads = [t \in TableIds |-> << >>]

InitFnIdle ==
    /\ fn = "none"
    /\ arg = << >>
    /\ ret = << >>
    /\ called = FALSE

Init ==
    /\ InitPipe
    /\ locale \in LocaleEncodings
    /\ InitFnIdle

Logged(i, stage, outcome) == [log EXCEPT ![i] = Append(@, <<stage, outcome>>)]

----------------------------------------------------------------------------
(* process_csv_file, one action per statement that can fail *)

\* The event arrives; identifiers are derived and the with-block is entered,
\* which creates the temporary file.
Start(i, name) ==
    /\ pc[i] = "idle"
    /\ obj' = [obj EXCEPT ![i] = name]
    /\ tableId' = [tableId EXCEPT ![i] = DeriveTableId(name)]
    /\ sourceUri' = [sourceUri EXCEPT ![i] = SourceUri(name)]
    /\ tempExists' = [tempExists EXCEPT ![i] = TRUE]
    /\ before' = [before EXCEPT ![i] = {k \in Invocations : pc[k] \in Ended}]
    /\ startTable' = [startTable EXCEPT ![i] = tables[DeriveTableId(name)]]
    /\ pc' = [pc EXCEPT ![i] = "download"]
    /\ UNCHANGED <<tempData, encoding, header, createReq, log, tables, loads,
                   locale, fnVars>>

\* blob.download_to_filename(temp_file.name)
Download(i) ==
    /\ pc[i] = "download"
    /\ LET blob == Blob(obj[i])
           outcome == IF blob.present THEN "ok" ELSE "NotFound"
       IN /\ tempData' = [tempData EXCEPT ![i] = blob]
          /\ tempExists' = IF outcome = "ok" THEN tempExists ELSE WithExit(i, outcome)
          /\ log' = Logged(i, "download", outcome)
          /\ pc' = [pc EXCEPT ![i] = AfterStage("detect", outcome)]
    /\ UNCHANGED <<obj, tableId, sourceUri, encoding, header, createReq, before,
                   startTable, tables, loads, locale, fnVars>>

\* result = chardet.detect(f.read()); encoding = result['encoding']
Detect(i) ==
    /\ pc[i] = "detect"
    /\ encoding' = [encoding EXCEPT ![i] = tempData[i].guess]
    /\ log' = Logged(i, "detect", "ok")
    /\ pc' = [pc EXCEPT ![i] = "extract"]
    /\ UNCHANGED <<obj, tableId, sourceUri, tempExists, tempData, header, createReq,
                   before, startTable, tables, loads, locale, fnVars>>

\* open with the guessed encoding, read the first record, leave the with-block
Extract(i) ==
    /\ pc[i] = "extract"
    /\ LET text == tempData[i].text[EffectiveEncoding(encoding[i])]
           outcome == ExtractOutcome(text)
       IN /\ header' = [header EXCEPT ![i] =
                           IF outcome = "ok" THEN text.records[1] ELSE @]
          /\ tempExists' = WithExit(i, outcome)
          /\ log' = Logged(i, "extract", outcome)
          /\ pc' = [pc EXCEPT ![i] = AfterStage("provision", outcome)]
    /\ UNCHANGED <<obj, tableId, sourceUri, tempData, encoding, createReq, before,
                   startTable, tables, loads, locale, fnVars>>

\* create_bq_table_from_header(dataset_id, table_id, header)
Provision(i) ==
    /\ pc[i] = "provision"
    /\ LET schema == Schema(header[i])
       IN /\ createReq' = [createReq EXCEPT ![i] =
                              [issued |-> TRUE, dataset |-> dataset_id,
                               schema |-> schema]]
          /\ \E outcome \in CreateTableOutcomes(tables[tableId[i]], schema) :
                /\ tables' = [tables EXCEPT ![tableId[i]] =
                                 TableAfterCreate(@, schema, outcome)]
                /\ log' = Logged(i, "provision", outcome)
                /\ pc' = [pc EXCEPT ![i] = AfterProvision(outcome)]
    /\ UNCHANGED <<obj, tableId, sourceUri, tempExists, tempData, encoding, header,
                   before, startTable, loads, locale, fnVars>>

\* load_csv_to_bq(source_uri, dataset_id, table_id)
Load(i) ==
    /\ pc[i] = "load"
    /\ LET blob == UriObject(sourceUri[i])
       IN \E outcome \in LoadOutcomes(tables[tableId[i]], blob) :
             /\ tables' = [tables EXCEPT ![tableId[i]] =
                              TableAfterLoad(@, blob, outcome)]
             /\ loads' = [loads EXCEPT ![tableId[i]] =
                             IF outcome = "ok" THEN Append(@, i) ELSE @]
             /\ log' = Logged(i, "load", outcome)
             /\ pc' = [pc EXCEPT ![i] = AfterStage("done", outcome)]
    /\ UNCHANGED <<obj, tableId, sourceUri, tempExists, tempData, encoding, header,
                   createReq, before, startTable, locale, fnVars>>

Next ==
    \E i \in Invocations :
        \/ \E name \in ObjectNames : Start(i, name)
        \/ Download(i)
        \/ Detect(i)
        \/ Extract(i)
        \/ Provision(i)
        \/ Load(i)

Spec == Init /\ [][Next]_vars

----------------------------------------------------------------------------
(* The pure functions, called on inputs drawn from bounded sets *)

InitFn ==
    /\ InitPipe
    /\ locale = "utf-8"
    /\ called = FALSE
    /\ ret = << >>
    /\ \/ fn = "sanitize_field_name" /\ arg \in HeaderTokens
       \/ fn = "table_id" /\ arg \in FileNames

CallSanitize ==
    /\ fn = "sanitize_field_name"
    /\ ~called
    /\ ret' = sanitize_field_name(arg)
    /\ called' = TRUE
    /\ UNCHANGED <<fn, arg, pipeVars>>

CallDeriveTableId ==
    /\ fn = "table_id"
    /\ ~called
    /\ ret' = DeriveTableId(arg)
    /\ called' = TRUE
    /\ UNCHANGED <<fn, arg, pipeVars>>

NextFn == CallSanitize \/ CallDeriveTableId

SpecFn == InitFn /\ [][NextFn]_vars

----------------------------------------------------------------------------
(* Vocabulary of the properties *)

StageOrder == <<"download", "detect", "extract", "provision", "load">>

Ran(i, stage) == \E k \in 1..Len(log[i]) : log[i][k][1] = stage

RanWith(i, stage, outcome) == \E k \in 1..Len(log[i]) : log[i][k] = <<stage, outcome>>

EndedWith(i, stage, outcome) ==
    /\ pc[i] \in Ended
    /\ Len(log[i]) > 0
    /\ log[i][Len(log[i])] = <<stage, outcome>>

EndsWith(s, suffix) ==
    /\ Len(s) >= Len(suffix)
    /\ SubSeq(s, Len(s) - Len(suffix) + 1, Len(s)) = suffix

\* the invocations of the same object name that had succeeded when j began
SucceededBefore(j) == {k \in before[j] : pc[k] = "done" /\ obj[k] = obj[j]}

\* the invocations of the same object name whose load had failed when j began
LoadFailedBefore(j) ==
    {k \in before[j] : obj[k] = obj[j] /\ EndedWith(k, "load", "LoadError")}

\* i and j overlap in time: neither had ended when the other began
Concurrent(i, j) ==
    /\ i # j
    /\ pc[i] # "idle" /\ pc[j] # "idle"
    /\ i \notin before[j] /\ j \notin before[i]

----------------------------------------------------------------------------
(* C1 *)

\* C1 (as claimed): for every header token, sanitize_field_name(token) has at
\* most 128 characters, each of them in [A-Za-z0-9_].
C1_SanitizedIsAsciiWord ==
    (fn = "sanitize_field_name" /\ called) =>
        /\ Len(ret) <= FieldNameLimit
        /\ \A k \in 1..Len(ret) : ret[k] \in AsciiWordChars

----------------------------------------------------------------------------
(* C2 *)

\* C2 (as claimed): table_id is the object name without its trailing ".csv"
\* when the name ends in ".csv", and the unmodified object name otherwise.
C2_TableIdStripsSuffixOnly ==
    (fn = "table_id" /\ called) =>
        ret = IF EndsWith(arg, DotCsv)
              THEN SubSeq(arg, 1, Len(arg) - Len(DotCsv))
              ELSE arg

----------------------------------------------------------------------------
(* C3 *)

\* C3: the schema handed to create_table has one entry per header column, in
\* header order, entry k being (sanitize_field_name(header[k]), STRING); the
\* header Name, E-Mail, Zip Code gives the columns Name, E_Mail, Zip_Code.
C3_SchemaFromHeader ==
    \A i \in Invocations :
        createReq[i].issued =>
            /\ Len(createReq[i].schema) = Len(header[i])
            /\ \A k \in 1..Len(header[i]) :
                  createReq[i].schema[k] =
                      <<sanitize_field_name(header[i][k]), "STRING">>
            /\ header[i] = HeaderNameMailZip =>
                  createReq[i].schema =
                      << << <<"N","a","m","e">>, "STRING" >>,
                         << <<"E","_","M","a","i","l">>, "STRING" >>,
                         << <<"Z","i","p","_","C","o","d","e">>, "STRING" >> >>

C3_Witness ==
    \E i \in Invocations :
        /\ createReq[i].issued
        /\ header[i] = HeaderNameMailZip
        /\ createReq[i].schema[2][1] = <<"E","_","M","a","i","l">>

----------------------------------------------------------------------------
(* C4 *)

\* C4: the stages of an invocation run in the order download, detect, extract,
\* provision, load; a stage that fails is the last one run; create_table is
\* issued only after the header was extracted, and a load job only after
\* create_table succeeded in the same invocation.
C4_LinearPipeline ==
    \A i \in Invocations :
        /\ Len(log[i]) <= Len(StageOrder)
        /\ \A k \in 1..Len(log[i]) :
              /\ log[i][k][1] = StageOrder[k]
              /\ k < Len(log[i]) => log[i][k][2] = "ok"
        /\ createReq[i].issued => RanWith(i, "extract", "ok")
        /\ Ran(i, "provision") <=> createReq[i].issued
        /\ Ran(i, "load") => RanWith(i, "provision", "ok")
        /\ pc[i] = "failed" => log[i][Len(log[i])][2] # "ok"
        /\ pc[i] = "done" => log[i][Len(log[i])] = <<"load", "ok">>

C4_Witness ==
    \E i, j \in Invocations :
        /\ EndedWith(i, "provision", "Conflict")
        /\ EndedWith(j, "load", "ok")

----------------------------------------------------------------------------
(* C5 *)

\* C5: an invocation that begins after an invocation of the same object name
\* has succeeded fails at provisioning with an already-exists conflict, issues
\* no load job, and leaves the table as the first run left it.
C5_SecondRunConflicts ==
    \A j \in Invocations :
        (pc[j] # "idle" /\ SucceededBefore(j) # {}) =>
            /\ startTable[j].exists
            /\ tables[tableId[j]] = startTable[j]
            /\ ~Ran(j, "load")
            /\ pc[j] # "done"
            /\ pc[j] = "failed" => EndedWith(j, "provision", "Conflict")

C5_Witness ==
    \E j \in Invocations :
        /\ SucceededBefore(j) # {}
        /\ EndedWith(j, "provision", "Conflict")
        /\ tables[tableId[j]].rows # << >>

----------------------------------------------------------------------------
(* C6 *)

\* C6 (as claimed): on an empty object, header extraction fails with an
\* empty-file error of its own, not with the iterator-exhaustion fault of
\* next(reader); no table is created and no load is issued.
C6_EmptyFileError ==
    \A i \in Invocations :
        (pc[i] \in Ended /\ tempData[i].present
            /\ \A e \in Encodings : tempData[i].text[e] = Decoded(<< >>)) =>
            /\ ~EndedWith(i, "extract", "StopIteration")
            /\ ~createReq[i].issued
            /\ ~Ran(i, "load")

----------------------------------------------------------------------------
(* C7 *)

\* C7: the temporary file exists only inside the with-block: it is gone when
\* provisioning begins and when the invocation ends, whatever the exit path.
C7_TempFileRemoved ==
    \A i \in Invocations :
        /\ pc[i] \in {"provision", "load", "done", "failed"} => ~tempExists[i]
        /\ pc[i] \in {"download", "detect", "extract"} => tempExists[i]

C7_Witness ==
    \E i, j \in Invocations :
        /\ EndedWith(i, "extract", "UnicodeDecodeError")
        /\ ~tempExists[i]
        /\ pc[j] = "provision"
        /\ ~tempExists[j]

----------------------------------------------------------------------------
(* C8 *)

\* C8 (as claimed): an invocation whose detector guessed None never reads a
\* header with that guess: it provisions no table and issues no load job.
C8_NullGuessIsAnError ==
    \A i \in Invocations :
        (Ran(i, "detect") /\ encoding[i] = NoGuess) =>
            /\ ~RanWith(i, "extract", "ok")
            /\ ~createReq[i].issued
            /\ ~Ran(i, "load")

----------------------------------------------------------------------------
(* C9 *)

\* C9 (as claimed): of two concurrent invocations with the same table_id both
\* may go on to load: the one still at provisioning can reach the load stage
\* although the other has created the table and is loading.
C9_BothMayLoad ==
    \A i, j \in Invocations :
        (Concurrent(i, j) /\ tableId[i] = tableId[j]
            /\ pc[i] = "provision" /\ pc[j] = "load"
            /\ ~HasDuplicateNames(Schema(header[i]))) =>
            ENABLED (Provision(i) /\ pc'[i] = "load")

\* C9 (amended): of the invocations with one table_id at most one creates the
\* table; every other one that attempts creation fails at provisioning and
\* issues no load, so at most one load job ever completes against the table,
\* whose rows are then that load's rows.
C9_OneCreatorOneLoad ==
    /\ \A i, j \in Invocations :
          (i # j /\ pc[i] # "idle" /\ pc[j] # "idle" /\ tableId[i] = tableId[j]) =>
              /\ ~(RanWith(i, "provision", "ok") /\ RanWith(j, "provision", "ok"))
              /\ ~(Ran(i, "load") /\ Ran(j, "load"))
              /\ (RanWith(i, "provision", "ok") /\ Ran(j, "provision")) =>
                    (pc[j] = "failed" /\ ~Ran(j, "load"))
    /\ \A t \in TableIds :
          /\ Len(loads[t]) <= 1
          /\ loads[t] # << >> =>
                tables[t].rows = DataRows(Blob(obj[loads[t][Len(loads[t])]]))

C9_Witness ==
    \E i, j \in Invocations :
        /\ Concurrent(i, j)
        /\ tableId[i] = tableId[j]
        /\ obj[i] # obj[j]
        /\ EndedWith(i, "load", "ok")
        /\ EndedWith(j, "provision", "Conflict")
        /\ Len(log[j]) = 4

----------------------------------------------------------------------------
(* C10 *)

\* C10: when the load job fails, the table created by the invocation stays in
\* the warehouse, empty, and the load is not tried again; every later
\* invocation of the same object name fails at provisioning with an
\* already-exists conflict and loads nothing.
C10_FailedLoadLeavesTable ==
    /\ \A i \in Invocations :
          EndedWith(i, "load", "LoadError") =>
              /\ pc[i] = "failed"
              /\ Len(log[i]) = Len(StageOrder)
              /\ tables[tableId[i]].exists
              /\ tables[tableId[i]].rows = << >>
              /\ loads[tableId[i]] = << >>
    /\ \A j \in Invocations :
          (pc[j] # "idle" /\ LoadFailedBefore(j) # {}) =>
              /\ ~Ran(j, "load")
              /\ pc[j] # "done"
              /\ pc[j] = "failed" => EndedWith(j, "provision", "Conflict")

C10_Witness ==
    \E i, j \in Invocations :
        /\ i \in LoadFailedBefore(j)
        /\ LoadCanSucceed(tables[tableId[i]], Blob(obj[i]))
        /\ EndedWith(j, "provision", "Conflict")
        /\ tables[tableId[j]].rows = << >>

====
